---- MODULE Spec2Model ----
(***************************************************************************)
(* Model of the yukina agent: the dispatcher of src/connection_manager.py, *)
(* the action plumbing of src/connections/twitter_connection.py and the    *)
(* constructor, prompt constructor and main loop of src/agent.py.          *)
(*                                                                         *)
(* Specifications: Spec (the loop), SpecD (one dispatcher call), SpecC     *)
(* (one constructor call), SpecP (the prompt constructor), SpecK (one      *)
(* perform_action call of the twitter connection), SpecI (one              *)
(* is_configured call of the twitter connection), SpecL (the system        *)
(* prompts handed to the LLM).                                             *)
(*                                                                         *)
(* Python values are records [k, n, tag, items]: k is the Python type,     *)
(* n the length of a str/list (or the value of an int), tag the content,   *)
(* items the elements of a list.                                           *)
(***************************************************************************)
EXTENDS Integers, Sequences, FiniteSets, TLC

VARIABLES
    connections,      \* ConnectionManager.connections: names registered
    tasks,            \* YukinaAgent.tasks
    self_task_weights,\* YukinaAgent.task_weights
    self_reply_chance,\* YukinaAgent.self_reply_chance, in hundredths
    model_provider,   \* YukinaAgent.model_provider
    timeline_tweets,  \* YukinaAgent.state["timeline_tweets"]
    last_tweet_time,  \* local of loop()
    action_name,      \* local of loop(): the task drawn in this iteration
    now,              \* time.time()
    pc,               \* position of loop()
    exc,              \* the exception being handled or propagated, "" if none
    ended,            \* how the body of the last iteration ended
    sleeps,           \* time.sleep(loop_delay) calls since the last iteration began
    log,              \* dispatcher calls of the current iteration, in order
    fetched,          \* the tweets the last replenish put into the buffer
    acted,            \* the tweets taken out of the buffer since, in order
    gate,             \* the self-reply gate of this iteration: reached, the draw made
    posted,           \* the gating timestamps of the post-tweet dispatches, in order
    d_call,           \* dispatcher probe: the call made
    d_result,         \* dispatcher probe: what it produced
    profile,          \* construction: the profile read from agents/<name>.json
    agent,            \* construction: what YukinaAgent(agent_name) produced
    bio,              \* YukinaAgent.bio
    traits,           \* YukinaAgent.traits
    examples,         \* YukinaAgent.examples
    _system_prompt,   \* YukinaAgent._system_prompt, the cache
    returned,         \* what the calls of _construct_system_prompt returned, in order
    edits,            \* assignments to bio/traits/examples since construction
    passed,           \* the system prompts handed to the LLM, in order
    k_call,           \* connection probe: the perform_action call made
    k_result,         \* connection probe: what it produced
    i_call,           \* is_configured probe: verbose, the environment, the remote
    i_result          \* is_configured probe: what it produced

vars == <<connections, tasks, self_task_weights, self_reply_chance, model_provider,
                   timeline_tweets,
          last_tweet_time, action_name, now, pc, exc, ended, sleeps, log,
          fetched, acted, gate, posted, d_call, d_result, profile, agent,
          bio, traits, examples, _system_prompt, returned, edits, passed,
          k_call, k_result,
          i_call, i_result>>

loopVars == <<connections, tasks, self_task_weights, self_reply_chance, model_provider,
                   timeline_tweets,
              last_tweet_time, action_name, now, pc, exc, ended, sleeps, log,
              fetched, acted, gate, posted>>

fifoVars == <<fetched, acted, gate>>

buildVars == <<profile, agent>>

promptVars == <<bio, traits, examples, _system_prompt, returned, edits, passed>>

connVars == <<k_call, k_result, i_call, i_result>>

probeVars == <<d_call, d_result, buildVars, promptVars, connVars>>

-----------------------------------------------------------------------------
(* Bounds *)

MaxTime == 5          \* the clock runs from StartTime to MaxTime
MaxTimeline == 2      \* timeline_read_count: tweets returned by one read
MaxParams == 3        \* longest positional list handed to the dispatcher
MaxBlocks == 2        \* longest "config" list of a profile
MaxLines == 2         \* longest bio, traits or examples list
MaxEdits == 1         \* assignments to bio, traits or examples after construction
MaxCalls == 2         \* calls of _construct_system_prompt
tweet_interval == 2   \* the profile's tweet_interval, in clock ticks
loop_delay == 1       \* the profile's loop_delay, in clock ticks

(* Program constants *)

TweetLimit == 280

-----------------------------------------------------------------------------
(* Python values *)

PyNone == [k |-> "NoneType", n |-> 0, tag |-> "None", items |-> <<>>]
PyAbsent == [k |-> "absent", n |-> 0, tag |-> "absent", items |-> <<>>]
PyStr(tag, len) == [k |-> "str", n |-> len, tag |-> tag, items |-> <<>>]
PyInt(v) == [k |-> "int", n |-> v, tag |-> "int", items |-> <<>>]
PyList(s) == [k |-> "list", n |-> Len(s), tag |-> "list", items |-> s]
PyDict == [k |-> "dict", n |-> 1, tag |-> "response", items |-> <<>>]
PyBool(b) == [k |-> "bool", n |-> IF b THEN 1 ELSE 0, tag |-> "bool", items |-> <<>>]
PyFloat(v) == [k |-> "float", n |-> v, tag |-> "float", items |-> <<>>]

\* Faulty variant: the test is `is not None`, an empty str or list passes.
Truthy_NotNone(v) == v.k # "NoneType"

\* Python truthiness of a value: None, "", 0 and [] are false.
Truthy(v) == v.k # "NoneType" /\ v.n # 0

\* str.lower() on the usernames of the model.
Lower(s) ==
    CASE s = "Me" -> "me"
      [] s = "ME" -> "me"
      [] s = "Bob" -> "bob"
      [] OTHER -> s

-----------------------------------------------------------------------------
(* Action tables *)

ActionParameter(name, required, type) ==
    [name |-> name, required |-> required, type |-> type]

TwitterActions ==
    ("get-latest-tweets" :> <<ActionParameter("username", TRUE, "str"),
                              ActionParameter("count", TRUE, "int")>>) @@
    ("post-tweet" :> <<ActionParameter("message", TRUE, "str")>>) @@
    ("read-timeline" :> <<ActionParameter("count", FALSE, "int")>>) @@
    ("like-tweet" :> <<ActionParameter("tweet_id", TRUE, "str")>>) @@
    ("reply-to-tweet" :> <<ActionParameter("tweet_id", TRUE, "str"),
                           ActionParameter("message", TRUE, "str")>>)

\* The LLM provider's table: generate-text(prompt, system_prompt).
LLMActions ==
    ("generate-text" :> <<ActionParameter("prompt", TRUE, "str"),
                          ActionParameter("system_prompt", TRUE, "str")>>)

ConnectionActions(connection_name) ==
    IF connection_name = "twitter" THEN TwitterActions ELSE LLMActions

-----------------------------------------------------------------------------
(* Outcomes of a call: either a returned value or a raised exception *)

Return(v) == [raised |-> FALSE, exc |-> "", ret |-> v]
Raise(e) == [raised |-> TRUE, exc |-> e, ret |-> PyNone]

\* Action.validate_params: the names of required parameters that are missing
\* from kwargs or carry a value of the wrong type.
validate_params(parameters, kwargs) ==
    {parameters[i].name : i \in {j \in 1..Len(parameters) :
        /\ parameters[j].required
        /\ \/ parameters[j].name \notin DOMAIN kwargs
           \/ kwargs[parameters[j].name].k # parameters[j].type}}

\* TwitterConnection._validate_tweet_text
validate_tweet_text(text) ==
    IF ~Truthy(text) THEN Raise("ValueError")
    ELSE IF text.n > TweetLimit THEN Raise("ValueError")
    ELSE Return(PyNone)

\* TwitterConnection._make_request: env.net is what the network does,
\* env.data what the remote answers.
make_request(env) ==
    CASE env.net = "ok" -> Return(env.data)
      [] env.net = "interrupt" -> Raise("KeyboardInterrupt")
      [] OTHER -> Raise("TwitterAPIError")

\* The outcome of a method together with the number of HTTP requests it made.
Sent(o, requests) == [raised |-> o.raised, exc |-> o.exc, ret |-> o.ret, requests |-> requests]

\* Faulty variant: the text is validated after the request has been made.
TwitterMethodTraced_RequestFirst(name, kwargs, env) ==
    IF name \in {"post-tweet", "reply-to-tweet"}
    THEN IF make_request(env).raised
         THEN Sent(make_request(env), 1)
         ELSE IF validate_tweet_text(kwargs["message"]).raised
         THEN Sent(validate_tweet_text(kwargs["message"]), 1)
         ELSE Sent(make_request(env), 1)
    ELSE Sent(make_request(env), 1)

\* read_timeline, get_latest_tweets, like_tweet: one request.
\* post_tweet, reply_to_tweet: the text is validated before the request.
TwitterMethodTraced(name, kwargs, env) ==
    IF name \in {"post-tweet", "reply-to-tweet"}
    THEN IF validate_tweet_text(kwargs["message"]).raised
         THEN Sent(validate_tweet_text(kwargs["message"]), 0)
         ELSE Sent(make_request(env), 1)
    ELSE Sent(make_request(env), 1)

\* The methods as their caller sees them.
TwitterMethod(name, kwargs, env) ==
    LET t == TwitterMethodTraced(name, kwargs, env)
    IN [raised |-> t.raised, exc |-> t.exc, ret |-> t.ret]

\* Line 360: action_name.replace('-', '_')
method_name(name) ==
    CASE name = "get-latest-tweets" -> "get_latest_tweets"
      [] name = "post-tweet" -> "post_tweet"
      [] name = "read-timeline" -> "read_timeline"
      [] name = "like-tweet" -> "like_tweet"
      [] name = "reply-to-tweet" -> "reply_to_tweet"
      [] OTHER -> name

NoKwargs == [nm \in {} |-> PyNone]

\* What one call of a connection's perform_action did: its outcome, the
\* method it called ("None" when it called none), the HTTP requests made and
\* the keyword arguments the method was called with.
Traced(o, method, requests, kwargs) ==
    [raised |-> o.raised, exc |-> o.exc, ret |-> o.ret, method |-> method,
     requests |-> requests, kwargs |-> kwargs]

\* Faulty variant: the parameters are validated after the method has run.
TwitterPerformActionTraced_ValidatesLate(name, kwargs, env) ==
    IF name \notin DOMAIN TwitterActions THEN Traced(Raise("KeyError"), "None", 0, NoKwargs)
    ELSE IF validate_params(TwitterActions[name], kwargs) # {}
    THEN Traced(Raise("ValueError"), method_name(name), 0, kwargs)
    ELSE LET m == TwitterMethodTraced(name, kwargs @@ ("count" :> PyInt(MaxTimeline)), env)
         IN Traced(m, method_name(name), m.requests, kwargs)

\* TwitterConnection.perform_action, lines 345-362
TwitterPerformActionTraced(name, kwargs, env) ==
    IF name \notin DOMAIN TwitterActions THEN Traced(Raise("KeyError"), "None", 0, NoKwargs)
    ELSE IF validate_params(TwitterActions[name], kwargs) # {}
    THEN Traced(Raise("ValueError"), "None", 0, NoKwargs)
    ELSE LET kw == IF name = "read-timeline" /\ "count" \notin DOMAIN kwargs
                   THEN kwargs @@ ("count" :> PyInt(MaxTimeline))
                   ELSE kwargs
             m == TwitterMethodTraced(name, kw, env)
         IN Traced(m, method_name(name), m.requests, kw)

\* TwitterConnection.perform_action: what the caller sees.
TwitterPerformAction(name, kwargs, env) ==
    LET t == TwitterPerformActionTraced(name, kwargs, env)
    IN [raised |-> t.raised, exc |-> t.exc, ret |-> t.ret]

\* The LLM provider's perform_action: the generated text, or a failure.
LLMPerformAction(name, kwargs, env) ==
    IF name \notin DOMAIN LLMActions THEN Raise("KeyError")
    ELSE IF validate_params(LLMActions[name], kwargs) # {} THEN Raise("ValueError")
    ELSE CASE env.net = "ok" -> Return(env.data)
           [] env.net = "interrupt" -> Raise("KeyboardInterrupt")
           [] OTHER -> Raise("APIError")

ConnectionPerformAction(connection_name, name, kwargs, env) ==
    IF connection_name = "twitter"
    THEN TwitterPerformAction(name, kwargs, env)
    ELSE LLMPerformAction(name, kwargs, env)

\* The HTTP requests the connection's perform_action made in that call.
ConnectionRequests(connection_name, name, kwargs, env) ==
    IF connection_name = "twitter"
    THEN TwitterPerformActionTraced(name, kwargs, env).requests
    ELSE IF LLMPerformAction(name, kwargs, env).exc \in {"KeyError", "ValueError"}
    THEN 0
    ELSE 1

\* The keyword arguments the connection's perform_action called its method
\* with in that call.
ConnectionMethodKwargs(connection_name, name, kwargs, env) ==
    IF connection_name = "twitter"
    THEN TwitterPerformActionTraced(name, kwargs, env).kwargs
    ELSE IF LLMPerformAction(name, kwargs, env).exc \in {"KeyError", "ValueError"}
    THEN NoKwargs
    ELSE kwargs

-----------------------------------------------------------------------------
(* ConnectionManager.perform_action, the dispatcher *)

\* Faulty variant: a bare `except:` catches KeyboardInterrupt as well.
IsException_Bare(e) == TRUE

\* `except Exception` catches everything but KeyboardInterrupt (a BaseException).
IsException(e) == e # "KeyboardInterrupt"

-----------------------------------------------------------------------------
(* TwitterConnection.is_configured *)

\* The environment variables _get_credentials requires.
required_vars ==
    {"TWITTER_CONSUMER_KEY", "TWITTER_CONSUMER_SECRET", "TWITTER_ACCESS_TOKEN",
     "TWITTER_ACCESS_TOKEN_SECRET", "TWITTER_USER_ID"}

\* _get_credentials: environ is the set of variables that have a value.
get_credentials(environ) ==
    IF required_vars \ environ # {} THEN Raise("TwitterConfigurationError")
    ELSE Return(PyDict)

\* client.get_me(): the remote validation call.
get_me(remote) ==
    CASE remote = "ok" -> Return(PyDict)
      [] remote = "interrupt" -> Raise("KeyboardInterrupt")
      [] OTHER -> Raise("TweepyException")

\* What one call of is_configured did: its outcome and whether it logged
\* the reason of the failure.
Checked(o, logged) ==
    [raised |-> o.raised, exc |-> o.exc, ret |-> o.ret, logged |-> logged, pending |-> FALSE]

\* Faulty variant: the handler takes TwitterConfigurationError alone.
is_configured_ConfigErrorOnly(verbose, environ, remote) ==
    LET body == IF get_credentials(environ).raised THEN get_credentials(environ)
                ELSE IF get_me(remote).raised THEN get_me(remote)
                ELSE Return(PyBool(TRUE))
    IN IF body.raised /\ body.exc = "TwitterConfigurationError"
       THEN Checked(Return(PyBool(FALSE)), verbose)
       ELSE Checked(body, FALSE)

\* Lines 318-343: the try block and its `except Exception`.
is_configured(verbose, environ, remote) ==
    LET body == IF get_credentials(environ).raised THEN get_credentials(environ)
                ELSE IF get_me(remote).raised THEN get_me(remote)
                ELSE Return(PyBool(TRUE))
    IN IF body.raised /\ IsException(body.exc)
       THEN Checked(Return(PyBool(FALSE)), verbose)
       ELSE Checked(body, FALSE)

EmptyKwargs == [nm \in {} |-> PyNone]

\* What one dispatcher call did: its outcome (raised/exc/ret), the error it
\* logged (reason), whether connection.perform_action was called (invoked),
\* the keyword map handed to it and the HTTP requests the connection made.
Outcome(o, reason, invoked, kwargs) ==
    [raised |-> o.raised, exc |-> o.exc, ret |-> o.ret,
     reason |-> reason, invoked |-> invoked, kwargs |-> kwargs, requests |-> 0,
     method_kwargs |-> EmptyKwargs]

RequiredParams(parameters) == SelectSeq(parameters, LAMBDA p : p.required)

\* Faulty variant: param_index is never advanced, every required name gets
\* the first positional parameter.
BindParams_IndexStuck(parameters, params) ==
    LET required == RequiredParams(parameters)
    IN [nm \in {required[i].name : i \in 1..Len(required)} |-> params[1]]

\* Lines 128-134: positional parameters to a keyword map, in declared order.
BindParams(parameters, params) ==
    LET required == RequiredParams(parameters)
    IN [nm \in {required[i].name : i \in 1..Len(required)} |->
            params[CHOOSE i \in 1..Len(required) : required[i].name = nm]]

\* Faulty variant: the positional list is measured against all the declared
\* parameters, optional ones included.
ArityMismatch_AllDeclared(params, parameters) ==
    Len(params) # Len(parameters)

\* Faulty variant: only too few parameters are refused.
ArityMismatch_TooFewOnly(params, parameters) ==
    Len(params) < Len(RequiredParams(parameters))

\* Line 123: the arity check.
ArityMismatch(params, parameters) ==
    Len(params) # Len(RequiredParams(parameters))

\* Faulty variant: the action is looked up before is_configured() is asked.
perform_action_try_ActionFirst(conns, connection_name, name, params, env) ==
    IF connection_name \notin conns
    THEN Outcome(Raise("KeyError"), "", FALSE, EmptyKwargs)
    ELSE IF name \notin DOMAIN ConnectionActions(connection_name)
    THEN Outcome(Return(PyNone), "UnknownAction", FALSE, EmptyKwargs)
    ELSE IF ~env.configured
    THEN Outcome(Return(PyNone), "NotConfigured", FALSE, EmptyKwargs)
    ELSE LET parameters == ConnectionActions(connection_name)[name]
         IN IF ArityMismatch(params, parameters)
            THEN Outcome(Return(PyNone), "ParameterCountMismatch", FALSE, EmptyKwargs)
            ELSE LET kwargs == BindParams(parameters, params)
                 IN [Outcome(ConnectionPerformAction(connection_name, name, kwargs, env),
                             "", TRUE, kwargs)
                       EXCEPT !.requests = ConnectionRequests(connection_name, name,
                                                              kwargs, env),
                              !.method_kwargs = ConnectionMethodKwargs(connection_name, name,
                                                                       kwargs, env)]

\* Lines 107-136: the body of the try block.  env.configured is what
\* connection.is_configured() answers for this call.
perform_action_try(conns, connection_name, name, params, env) ==
    IF connection_name \notin conns
    THEN Outcome(Raise("KeyError"), "", FALSE, EmptyKwargs)
    ELSE IF ~env.configured
    THEN Outcome(Return(PyNone), "NotConfigured", FALSE, EmptyKwargs)
    ELSE IF name \notin DOMAIN ConnectionActions(connection_name)
    THEN Outcome(Return(PyNone), "UnknownAction", FALSE, EmptyKwargs)
    ELSE LET parameters == ConnectionActions(connection_name)[name]
         IN IF ArityMismatch(params, parameters)
            THEN Outcome(Return(PyNone), "ParameterCountMismatch", FALSE, EmptyKwargs)
            ELSE LET kwargs == BindParams(parameters, params)
                 IN [Outcome(ConnectionPerformAction(connection_name, name, kwargs, env),
                             "", TRUE, kwargs)
                       EXCEPT !.requests = ConnectionRequests(connection_name, name,
                                                              kwargs, env),
                              !.method_kwargs = ConnectionMethodKwargs(connection_name, name,
                                                                       kwargs, env)]

\* Faulty variant: the except clause catches KeyError alone.
perform_action_except_KeyErrorOnly(o) ==
    IF o.raised /\ o.exc = "KeyError"
    THEN [o EXCEPT !.raised = FALSE, !.ret = PyNone, !.reason = "Exception"]
    ELSE o

\* Lines 138-140: the except clause.
perform_action_except(o) ==
    IF o.raised /\ IsException(o.exc)
    THEN [o EXCEPT !.raised = FALSE, !.ret = PyNone, !.reason = "Exception"]
    ELSE o

perform_action(conns, connection_name, name, params, env) ==
    perform_action_except(perform_action_try(conns, connection_name, name, params, env))

-----------------------------------------------------------------------------
(* Construction: YukinaAgent.__init__ and ConnectionManager.__init__.      *)
(* A dict is a function from its keys to Python values; a profile is the   *)
(* set of its top-level keys and the list under "config".                  *)

REQUIRED_FIELDS == <<"name", "bio", "traits", "examples", "loop_delay", "config", "tasks">>

Range(s) == {s[i] : i \in 1..Len(s)}

\* dict.get(key, default)
Get(d, key, default) == IF key \in DOMAIN d THEN d[key] ELSE default

Without(d, key) == [x \in DOMAIN d \ {key} |-> d[x]]

\* A twitter block that validate_config accepts.
ValidTwitterBlock ==
    ("name" :> PyStr("twitter", 7)) @@ ("timeline_read_count" :> PyInt(10)) @@
    ("self_reply_chance" :> PyFloat(5)) @@ ("tweet_interval" :> PyInt(900))

TuningFields == <<"timeline_read_count", "self_reply_chance", "tweet_interval">>

\* The valid block and the blocks that differ from it in one tuning value:
\* the key missing, an integer that is not positive, a value of another type,
\* a negative chance.
TwitterBlocks ==
    {ValidTwitterBlock}
    \cup {Without(ValidTwitterBlock, f) : f \in Range(TuningFields)}
    \cup {[ValidTwitterBlock EXCEPT !["timeline_read_count"] = v] :
             v \in {PyInt(0), PyStr("ten", 3)}}
    \cup {[ValidTwitterBlock EXCEPT !["self_reply_chance"] = v] :
             v \in {PyFloat(-10), PyInt(1)}}
    \cup {[ValidTwitterBlock EXCEPT !["tweet_interval"] = v] :
             v \in {PyInt(0), PyFloat(9000)}}

\* An LLM block, a block of a connection type the manager does not know and
\* a block without the "name" key.
OtherBlocks ==
    {("name" :> PyStr("anthropic", 9)) @@ ("model" :> PyStr("claude", 6)),
     ("name" :> PyStr("discord", 7)),
     ("model" :> PyStr("nameless", 8))}

Blocks == TwitterBlocks \cup OtherBlocks

Configs == UNION {[1..n -> Blocks] : n \in 0..MaxBlocks}

Profiles ==
    {p \in [keys : SUBSET Range(REQUIRED_FIELDS), config : Configs] :
        "config" \notin p.keys => p.config = <<>>}

\* What a constructor call produced: an agent, or the exception it raised
\* with the text of its message and the field names the message lists.
Built(conns, chance, interval) ==
    [status |-> "built", exc |-> "", text |-> "", fields |-> <<>>,
     connections |-> conns, self_reply_chance |-> chance, tweet_interval |-> interval]
Failed(e, text, fields) ==
    [status |-> "failed", exc |-> e, text |-> text, fields |-> fields,
     connections |-> {}, self_reply_chance |-> PyNone, tweet_interval |-> PyNone]

NoProfile == [keys |-> {}, config |-> <<>>]
NoAgent ==
    [status |-> "pending", exc |-> "", text |-> "", fields |-> <<>>,
     connections |-> {}, self_reply_chance |-> PyNone, tweet_interval |-> PyNone]

\* TwitterConnection.validate_config
validate_config(config) ==
    LET missing_fields == SelectSeq(TuningFields, LAMBDA f : f \notin DOMAIN config)
    IN IF missing_fields # <<>>
       THEN Failed("ValueError", "Missing required configuration fields", missing_fields)
       ELSE IF config["timeline_read_count"].k # "int" \/ config["timeline_read_count"].n <= 0
       THEN Failed("ValueError", "timeline_read_count must be a positive integer", <<>>)
       ELSE IF config["self_reply_chance"].k # "float" \/ config["self_reply_chance"].n < 0
       THEN Failed("ValueError", "self_reply_chance must be 0 or greater", <<>>)
       ELSE IF config["tweet_interval"].k # "int" \/ config["tweet_interval"].n <= 0
       THEN Failed("ValueError", "tweet_interval must be a positive integer", <<>>)
       ELSE Built({}, PyNone, PyNone)

\* ConnectionManager._class_name_to_type
class_name_to_type(class_name) ==
    IF class_name.tag \in {"twitter", "anthropic", "openai"} THEN class_name.tag ELSE "None"

\* connection_class(config_dic): calling None raises TypeError; the
\* constructor of a connection validates the block it is given and lets the
\* error of the validation out; an LLM block is accepted.
connection_class_call(connection_class, config_dic) ==
    IF connection_class = "None" THEN Failed("TypeError", "'NoneType' object is not callable", <<>>)
    ELSE IF connection_class = "twitter" THEN validate_config(config_dic)
    ELSE Built({}, PyNone, PyNone)

\* ConnectionManager._register_connection: the connections after the call,
\* or the exception that left it.  Without the "name" key the handler itself
\* fails on the unbound local `name`.
register_connection(conns, config_dic) ==
    IF "name" \notin DOMAIN config_dic
    THEN Failed("UnboundLocalError", "name", <<>>)
    ELSE LET name == config_dic["name"]
             connection == connection_class_call(class_name_to_type(name), config_dic)
         IN IF connection.status = "failed"
            THEN Built(conns, PyNone, PyNone)
            ELSE Built(conns \cup {name.tag}, PyNone, PyNone)

\* ConnectionManager.__init__: register the blocks in order.
RECURSIVE ConnectionManager(_, _)
ConnectionManager(conns, agent_config) ==
    IF agent_config = <<>> THEN Built(conns, PyNone, PyNone)
    ELSE LET r == register_connection(conns, Head(agent_config))
         IN IF r.status = "failed" THEN r
            ELSE ConnectionManager(r.connections, Tail(agent_config))

\* Line 24: the required fields the profile lacks, in the order of REQUIRED_FIELDS.
missing_fields_First(agent_dict) ==
    LET all == SelectSeq(REQUIRED_FIELDS, LAMBDA field : field \notin agent_dict.keys)
    IN IF all = <<>> THEN <<>> ELSE <<Head(all)>>

missing_fields(agent_dict) ==
    SelectSeq(REQUIRED_FIELDS, LAMBDA field : field \notin agent_dict.keys)

NotFound == [raised |-> FALSE, found |-> FALSE, block |-> EmptyKwargs]

\* Faulty variant: the first block of the list is taken, whatever its name.
twitter_config_FirstBlock(config) ==
    IF config = <<>> THEN NotFound
    ELSE [raised |-> FALSE, found |-> TRUE, block |-> Head(config)]

\* Line 36: next((config for config in agent_dict["config"]
\*               if config["name"] == "twitter"), None)
RECURSIVE twitter_config(_)
twitter_config(config) ==
    IF config = <<>> THEN NotFound
    ELSE IF "name" \notin DOMAIN Head(config)
    THEN [raised |-> TRUE, found |-> FALSE, block |-> EmptyKwargs]
    ELSE IF Head(config)["name"] = PyStr("twitter", 7)
    THEN [raised |-> FALSE, found |-> TRUE, block |-> Head(config)]
    ELSE twitter_config(Tail(config))

\* YukinaAgent.__init__ (lines 20-58); the handler of lines 56-58 logs and
\* re-raises.
YukinaAgent(agent_dict) ==
    IF missing_fields(agent_dict) # <<>>
    THEN Failed("KeyError", "Missing required fields", missing_fields(agent_dict))
    ELSE LET connection_manager == ConnectionManager({}, agent_dict.config)
             tc == twitter_config(agent_dict.config)
         IN IF connection_manager.status = "failed" THEN connection_manager
            ELSE IF tc.raised THEN Failed("KeyError", "name", <<>>)
            ELSE IF ~tc.found THEN Failed("KeyError", "Twitter configuration is required", <<>>)
            ELSE Built(connection_manager.connections,
                       Get(tc.block, "self_reply_chance", PyFloat(5)),
                       Get(tc.block, "tweet_interval", PyInt(900)))

-----------------------------------------------------------------------------
(* The prompt constructor: YukinaAgent._construct_system_prompt.           *)
(* A str is the sequence of its lines (what "\n" separates), a line the    *)
(* sequence of the pieces it is put together from; "" is one empty line.   *)

EmptyStr == << <<>> >>
Str(s) == << <<s>> >>

\* f"- {trait}", f"- {example}"
Bullet(s) == << <<"- ", s>> >>

\* The header literals of lines 78 and 82; both begin with "\n".
TraitsHeader == << <<>>, <<"Your key traits are:">> >>
ExamplesHeader ==
    << <<>>, <<"Here are some examples of your style (Please avoid repeating any of these):">> >>

\* "\n".join(parts)
RECURSIVE Join(_)
Join(parts) ==
    IF parts = <<>> THEN EmptyStr
    ELSE IF Len(parts) = 1 THEN parts[1]
    ELSE parts[1] \o Join(Tail(parts))

\* Faulty variant: the headers are appended whether or not the lists are empty.
prompt_parts_HeadersAlways(b, t, e) ==
    [i \in 1..Len(b) |-> Str(b[i])]
    \o <<TraitsHeader>> \o [i \in 1..Len(t) |-> Bullet(t[i])]
    \o <<ExamplesHeader>> \o [i \in 1..Len(e) |-> Bullet(e[i])]

\* Lines 74-83: prompt_parts.
prompt_parts(b, t, e) ==
    LET parts0 == [i \in 1..Len(b) |-> Str(b[i])]
        parts1 == IF t # <<>>
                  THEN parts0 \o <<TraitsHeader>> \o [i \in 1..Len(t) |-> Bullet(t[i])]
                  ELSE parts0
    IN IF e # <<>>
       THEN parts1 \o <<ExamplesHeader>> \o [i \in 1..Len(e) |-> Bullet(e[i])]
       ELSE parts1

\* The cache: None, or the string stored.
NoPrompt == [set |-> FALSE, text |-> EmptyStr]
Cached(text) == [set |-> TRUE, text |-> text]

\* Faulty variant: the prompt is put together anew at every call.
construct_system_prompt_Uncached(cache, b, t, e) == Cached(Join(prompt_parts(b, t, e)))

\* Lines 73-87: the cache after the call; its text is what the call returns.
construct_system_prompt(cache, b, t, e) ==
    IF ~cache.set THEN Cached(Join(prompt_parts(b, t, e))) ELSE cache

\* s + t on strings: the last line of s runs on into the first line of t.
Concat(s, t) == SubSeq(s, 1, Len(s) - 1) \o <<s[Len(s)] \o t[1]>> \o Tail(t)

\* The literal appended at line 188; it begins with "\n\n".
ContinuityInstruction ==
    << <<>>, <<>>,
       <<"You are replying to your own previous tweet. Stay in character while building on your earlier thought.">> >>

\* What a caller of prompt_llm has in hand: the cache after its own call of
\* _construct_system_prompt and the system_prompt argument it passes
\* (NoPrompt for None).
Prompted(cache, system_prompt) == [cache |-> cache, system_prompt |-> system_prompt]

\* Faulty variant: the instruction is appended to the cached string itself.
reply_system_prompt_InPlace(is_own_tweet, cache, b, t, e) ==
    LET c == construct_system_prompt(cache, b, t, e)
    IN IF is_own_tweet
       THEN Prompted(Cached(Concat(c.text, ContinuityInstruction)),
                     Cached(Concat(c.text, ContinuityInstruction)))
       ELSE Prompted(c, c)

\* Lines 187-192: the system prompt of a reply.
reply_system_prompt(is_own_tweet, cache, b, t, e) ==
    LET c == construct_system_prompt(cache, b, t, e)
    IN IF is_own_tweet
       THEN Prompted(c, Cached(Concat(c.text, ContinuityInstruction)))
       ELSE Prompted(c, c)

\* Line 91: `system_prompt or self._construct_system_prompt()`; None and the
\* empty string are false.
llm_system_prompt(system_prompt, cache, b, t, e) ==
    IF system_prompt.set /\ system_prompt.text # EmptyStr
    THEN Prompted(cache, system_prompt)
    ELSE LET c == construct_system_prompt(cache, b, t, e) IN Prompted(c, c)

NoKCall == [action_name |-> "", kwargs |-> [nm \in {} |-> PyNone],
            env |-> [configured |-> FALSE, net |-> "ok", data |-> PyNone]]
NoKResult == [raised |-> FALSE, exc |-> "", ret |-> PyNone, method |-> "pending",
              requests |-> 0, kwargs |-> [nm \in {} |-> PyNone]]

NoICall == [verbose |-> FALSE, environ |-> {}, remote |-> "ok"]
NoIResult == [raised |-> FALSE, exc |-> "", ret |-> PyNone, logged |-> FALSE, pending |-> TRUE]

ConnIdle ==
    /\ k_call = NoKCall
    /\ k_result = NoKResult
    /\ i_call = NoICall
    /\ i_result = NoIResult

PromptIdle ==
    /\ bio = <<>>
    /\ traits = <<>>
    /\ examples = <<>>
    /\ _system_prompt = NoPrompt
    /\ returned = <<>>
    /\ edits = 0
    /\ passed = <<>>

-----------------------------------------------------------------------------
(* The agent: profile, environment and loop() *)

\* TWITTER_USERNAME, lower-cased by _setup_llm_provider.
username == Lower("Me")

Tweet(id, author, text) == [id |-> id, author_username |-> author, text |-> text]

\* The tweets a timeline read can return: one of the agent's own (its author
\* spelled in another case), one of somebody else, one without an id.
Tweets ==
    {Tweet(PyStr("t1", 2), "ME", PyStr("own thought", 11)),
     Tweet(PyStr("t2", 2), "Bob", PyStr("hello", 5)),
     Tweet(PyNone, "Bob", PyStr("no id", 5))}

Timelines == UNION {[1..n -> Tweets] : n \in 0..MaxTimeline}

\* What the LLM can answer: an empty text, a tweet-sized one, one too long.
LLMTexts == {PyStr("generated", 0), PyStr("generated", 5), PyStr("generated", TweetLimit + 1)}

\* random.random() and self_reply_chance, in hundredths.
Draws == {0, 5, 50, 99}
Chances == {0, 5, 100}

Task(name, weight) == [name |-> name, weight |-> weight]

TaskConfigs ==
    {<<>>,
     <<Task("post-tweet", PyInt(3)), Task("like-tweet", PyAbsent)>>,
     <<Task("post-tweet", PyAbsent), Task("reply-to-tweet", PyInt(1)),
       Task("like-tweet", PyInt(2)), Task("post", PyInt(1))>>}

\* Faulty variant: only the tasks that declare a weight contribute one.
task_weights_DeclaredOnly(ts) ==
    LET declared == SelectSeq(ts, LAMBDA t : t.weight.k # "absent")
    IN [i \in 1..Len(declared) |-> declared[i].weight.n]

\* Line 51: task.get("weight", 1) for each task.
task_weights(ts) ==
    [i \in 1..Len(ts) |-> IF ts[i].weight.k = "absent" THEN 1 ELSE ts[i].weight.n]

\* itertools.accumulate(weights): the sum of the first i weights.
RECURSIVE cum_weights(_, _)
cum_weights(weights, i) == IF i = 0 THEN 0 ELSE cum_weights(weights, i - 1) + weights[i]

\* The draws random.random() * total can fall on: ticket u stands for the
\* interval [u, u + 1).
Tickets(weights) == 0 .. cum_weights(weights, Len(weights)) - 1

\* Faulty variant: random.choice(tasks), the weights ignored.
choices_Uniform(weights, u) == (u % Len(weights)) + 1

\* random.choices(population, weights, k=1): bisect the cumulative weights
\* at the draw; the index (from 1) of the element chosen.
choices(weights, u) ==
    Cardinality({j \in 1..Len(weights) : cum_weights(weights, j) <= u}) + 1

\* What a connection meets during one call.
Envs(dataSet) == [configured : BOOLEAN, net : {"ok", "fail", "interrupt"}, data : dataSet]

Call(connection_name, name, params, result) ==
    [connection_name |-> connection_name, action_name |-> name,
     params |-> params, result |-> result]

PersonaPrompt == PyStr("persona", 1)
SelfReplyPrompt == PyStr("persona + own-tweet instruction", 2)
TweetPrompt == PyStr("tweet prompt", 1)
ReplyPrompt(tweet) == PyStr("reply prompt", 1 + tweet.text.n)

\* YukinaAgent.prompt_llm
prompt_llm(prompt, system_prompt, env) ==
    perform_action(connections, model_provider, "generate-text",
                   <<prompt, IF Truthy(system_prompt) THEN system_prompt ELSE PersonaPrompt>>,
                   env)

\* Faulty variant: a like selection runs the reply branch.
Branch_LikeReplies(name) ==
    CASE name = "post-tweet" -> "post-tweet"
      [] name \in {"reply-to-tweet", "like-tweet"} -> "reply-to-tweet"
      [] OTHER -> "none"

\* Faulty variant: the names of the task vocabulary are taken for the
\* action names.
Branch_Vocabulary(name) ==
    CASE name \in {"post-tweet", "post"} -> "post-tweet"
      [] name \in {"reply-to-tweet", "reply"} -> "reply-to-tweet"
      [] name \in {"like-tweet", "like"} -> "like-tweet"
      [] OTHER -> "none"

\* Lines 138, 165, 202: the if/elif chain on action_name; "none" when no
\* branch of it matches.
Branch(name) ==
    CASE name = "post-tweet" -> "post-tweet"
      [] name = "reply-to-tweet" -> "reply-to-tweet"
      [] name = "like-tweet" -> "like-tweet"
      [] OTHER -> "none"

\* Faulty variant: the interval must be exceeded, not merely reached.
PostDue_Strict(current_time, last) == current_time - last > tweet_interval

\* Faulty variant: the time of the last post is not subtracted.
PostDue_Absolute(current_time, last) == current_time >= tweet_interval

\* Line 141: the tweet-interval gate.
PostDue(current_time, last) == current_time - last >= tweet_interval

\* Faulty variant: the reply is skipped with probability `chance`.
SelfReplySkipped_Inverted(is_own_tweet, draw, chance) == is_own_tweet /\ draw < chance

\* Faulty variant: a draw equal to the chance skips the reply as well.
SelfReplySkipped_AtOrAbove(is_own_tweet, draw, chance) == is_own_tweet /\ draw >= chance

\* Line 175: the self-reply gate; TRUE when the reply is skipped.
SelfReplySkipped(is_own_tweet, draw, chance) == is_own_tweet /\ draw > chance

\* Lines 124, 166, 203: `"timeline_tweets" in state and len(...) > 0`;
\* len(None) raises TypeError.
\* Faulty variant: list.pop() without an index takes the last element.
pop0_Last(items) == [item |-> items[Len(items)], rest |-> SubSeq(items, 1, Len(items) - 1)]

\* Faulty variant: items[0] is read and left in the list.
pop0_Peek(items) == [item |-> Head(items), rest |-> items]

\* Lines 168 and 205: list.pop(0): the element taken and the list left.
pop0(items) == [item |-> Head(items), rest |-> Tail(items)]

\* Line 175 not reached in this iteration, no random.random() drawn.
NoGate == [reached |-> FALSE, drawn |-> <<>>]

LenRaises(tl) == tl.k = "NoneType"
HasTweets(tl) == tl.k = "list" /\ tl.n > 0

\* Faulty variant: only a missing key triggers the read.
NeedsReplenish_MissingOnly(tl) == tl.k = "absent"

\* Line 124, for a buffer whose len() can be taken: the key is missing or
\* the list is empty.
NeedsReplenish(tl) == tl.k = "absent" \/ tl.n = 0

StartTime == tweet_interval

\* The dispatcher probe before any call.
NoCall == [connection_name |-> "", action_name |-> "", params |-> <<>>,
           env |-> [configured |-> FALSE, net |-> "ok", data |-> PyNone]]
NoResult == Outcome(Return(PyNone), "pending", FALSE, EmptyKwargs)

Init ==
    /\ connections \in SUBSET {"twitter", "anthropic"}
    /\ tasks \in TaskConfigs
    /\ self_task_weights = task_weights(tasks)
    /\ self_reply_chance \in Chances
    /\ model_provider = ""
    /\ timeline_tweets = PyAbsent
    /\ last_tweet_time = 0
    /\ action_name = ""
    /\ now = StartTime
    /\ pc = "setup"
    /\ exc = ""
    /\ ended = "none"
    /\ sleeps = 0
    /\ log = <<>>
    /\ fetched = <<>>
    /\ acted = <<>>
    /\ gate = NoGate
    /\ posted = <<>>
    /\ d_call = NoCall
    /\ d_result = NoResult
    /\ profile = NoProfile
    /\ agent = NoAgent
    /\ PromptIdle
    /\ ConnIdle

\* Lines 104-105, 60-65: the first configured LLM provider, or ValueError.
Setup ==
    /\ pc = "setup"
    /\ \E configured \in BOOLEAN :
         IF "anthropic" \in connections /\ configured
         THEN /\ model_provider' = "anthropic"
              /\ pc' = "warmup"
              /\ exc' = exc
         ELSE /\ model_provider' = model_provider
              /\ pc' = "raised"
              /\ exc' = "ValueError"
    /\ UNCHANGED <<connections, tasks, self_task_weights, self_reply_chance,
                   timeline_tweets, last_tweet_time, action_name, now, ended, sleeps, log,
                   fifoVars, posted, probeVars>>

\* Lines 111-117: the countdown, then last_tweet_time = 0.
Warmup ==
    /\ pc = "warmup"
    /\ pc' = "top"
    /\ last_tweet_time' = 0
    /\ UNCHANGED <<connections, tasks, self_task_weights, self_reply_chance, model_provider,
                   timeline_tweets, action_name, now, exc, ended, sleeps, log, fifoVars,
                   posted, probeVars>>

\* Lines 124-130: replenish the inputs.
Replenish ==
    /\ pc = "top"
    /\ sleeps' = 0
    /\ gate' = NoGate
    /\ IF timeline_tweets.k # "absent" /\ LenRaises(timeline_tweets)
       THEN /\ pc' = "except"
            /\ exc' = "TypeError"
            /\ ended' = "error"
            /\ log' = <<>>
            /\ UNCHANGED <<timeline_tweets, fetched, acted>>
       ELSE IF NeedsReplenish(timeline_tweets)
       THEN \E env \in Envs({PyList(t) : t \in Timelines}) :
              LET r == perform_action(connections, "twitter", "read-timeline", <<>>, env)
              IN /\ log' = <<Call("twitter", "read-timeline", <<>>, r)>>
                 /\ IF r.raised
                    THEN /\ pc' = "returned"
                         /\ exc' = r.exc
                         /\ ended' = "interrupted"
                         /\ UNCHANGED <<timeline_tweets, fetched, acted>>
                    ELSE /\ pc' = "select"
                         /\ exc' = exc
                         /\ ended' = "running"
                         /\ timeline_tweets' = r.ret
                         /\ fetched' = r.ret.items
                         /\ acted' = <<>>
       ELSE /\ pc' = "select"
            /\ exc' = exc
            /\ ended' = "running"
            /\ log' = <<>>
            /\ UNCHANGED <<timeline_tweets, fetched, acted>>
    /\ UNCHANGED <<connections, tasks, self_task_weights, self_reply_chance, model_provider,
                   last_tweet_time, action_name, now, posted, probeVars>>

\* Faulty variant: the task is drawn before the replenish check has run.
Select_BeforeReplenish ==
    /\ pc \in {"top", "select"}
    /\ IF Len(tasks) = 0
       THEN /\ pc' = "except"
            /\ exc' = "IndexError"
            /\ ended' = "error"
            /\ UNCHANGED action_name
       ELSE \E u \in Tickets(self_task_weights) :
              /\ action_name' = tasks[choices(self_task_weights, u)].name
              /\ pc' = "act"
              /\ UNCHANGED <<exc, ended>>
    /\ UNCHANGED <<connections, tasks, self_task_weights, self_reply_chance, model_provider,
                   timeline_tweets, last_tweet_time, now, sleeps, log, fifoVars, posted,
                   probeVars>>

\* Lines 134-135: random.choices(tasks, weights=task_weights, k=1)[0]["name"];
\* an empty population raises IndexError.
Select ==
    /\ pc = "select"
    /\ IF Len(tasks) = 0
       THEN /\ pc' = "except"
            /\ exc' = "IndexError"
            /\ ended' = "error"
            /\ UNCHANGED action_name
       ELSE \E u \in Tickets(self_task_weights) :
              /\ action_name' = tasks[choices(self_task_weights, u)].name
              /\ pc' = "act"
              /\ UNCHANGED <<exc, ended>>
    /\ UNCHANGED <<connections, tasks, self_task_weights, self_reply_chance, model_provider,
                   timeline_tweets, last_tweet_time, now, sleeps, log, fifoVars, posted,
                   probeVars>>

\* Faulty variant: the throttled branch stamps the attempt.
PostThrottled_Stamps ==
    /\ pc = "act"
    /\ Branch(action_name) = "post-tweet"
    /\ ~PostDue(now, last_tweet_time)
    /\ pc' = "top"
    /\ ended' = "throttled"
    /\ last_tweet_time' = now
    /\ UNCHANGED <<connections, tasks, self_task_weights, self_reply_chance, model_provider,
                   timeline_tweets, action_name, now, exc, sleeps, log, fifoVars, posted,
                   probeVars>>

\* Lines 160-163: the tweet interval has not elapsed: log and `continue`.
PostThrottled ==
    /\ pc = "act"
    /\ Branch(action_name) = "post-tweet"
    /\ ~PostDue(now, last_tweet_time)
    /\ pc' = "top"
    /\ ended' = "throttled"
    /\ UNCHANGED <<connections, tasks, self_task_weights, self_reply_chance, model_provider,
                   timeline_tweets, last_tweet_time, action_name, now, exc, sleeps, log,
                   fifoVars, posted, probeVars>>

\* Lines 138-159: generate a tweet and post it.
PostTweet ==
    /\ pc = "act"
    /\ Branch(action_name) = "post-tweet"
    /\ PostDue(now, last_tweet_time)
    /\ \E llm \in Envs(LLMTexts), net \in Envs({PyDict}) :
         LET current_time == now
             g == prompt_llm(TweetPrompt, PyNone, llm)
             tweet_text == g.ret
             gcall == Call(model_provider, "generate-text", <<TweetPrompt, PersonaPrompt>>, g)
             p == perform_action(connections, "twitter", "post-tweet", <<tweet_text>>, net)
             pcall == Call("twitter", "post-tweet", <<tweet_text>>, p)
         IN IF g.raised
            THEN /\ log' = Append(log, gcall)
                 /\ pc' = "returned" /\ exc' = g.exc /\ ended' = "interrupted"
                 /\ UNCHANGED <<last_tweet_time, posted>>
            ELSE IF ~Truthy(tweet_text)
            THEN /\ log' = Append(log, gcall)
                 /\ pc' = "sleep" /\ exc' = exc /\ ended' = "normal"
                 /\ UNCHANGED <<last_tweet_time, posted>>
            ELSE IF p.raised
            THEN /\ log' = log \o <<gcall, pcall>>
                 /\ pc' = "returned" /\ exc' = p.exc /\ ended' = "interrupted"
                 /\ posted' = Append(posted, current_time)
                 /\ UNCHANGED last_tweet_time
            ELSE /\ log' = log \o <<gcall, pcall>>
                 /\ pc' = "sleep" /\ exc' = exc /\ ended' = "normal"
                 /\ posted' = Append(posted, current_time)
                 /\ last_tweet_time' = current_time
    /\ UNCHANGED <<connections, tasks, self_task_weights, self_reply_chance, model_provider,
                   timeline_tweets, action_name, now, sleeps, fifoVars, probeVars>>

\* Lines 165-200: reply to the next tweet of the buffer.
ReplyToTweet ==
    /\ pc = "act"
    /\ Branch(action_name) = "reply-to-tweet"
    /\ IF LenRaises(timeline_tweets)
       THEN /\ pc' = "except" /\ exc' = "TypeError" /\ ended' = "error"
            /\ UNCHANGED <<timeline_tweets, log, fifoVars>>
       ELSE IF ~HasTweets(timeline_tweets)
       THEN /\ pc' = "sleep" /\ exc' = exc /\ ended' = "normal"
            /\ UNCHANGED <<timeline_tweets, log, fifoVars>>
       ELSE \E draw \in Draws, llm \in Envs(LLMTexts), net \in Envs({PyDict}) :
         LET tweet == pop0(timeline_tweets.items).item
             tweet_id == tweet.id
             is_own_tweet == Lower(tweet.author_username) = username
             system_prompt == IF is_own_tweet THEN SelfReplyPrompt ELSE PersonaPrompt
             g == prompt_llm(ReplyPrompt(tweet), system_prompt, llm)
             reply_text == g.ret
             gcall == Call(model_provider, "generate-text",
                           <<ReplyPrompt(tweet), system_prompt>>, g)
             p == perform_action(connections, "twitter", "reply-to-tweet",
                                 <<tweet_id, reply_text>>, net)
             pcall == Call("twitter", "reply-to-tweet", <<tweet_id, reply_text>>, p)
         IN /\ timeline_tweets' = PyList(pop0(timeline_tweets.items).rest)
            /\ acted' = Append(acted, tweet)
            /\ UNCHANGED fetched
            /\ gate' = IF Truthy(tweet_id)
                       THEN [reached |-> TRUE,
                             drawn |-> IF is_own_tweet THEN <<draw>> ELSE <<>>]
                       ELSE gate
            /\ IF ~Truthy(tweet_id)
               THEN /\ pc' = "top" /\ exc' = exc /\ ended' = "no_id"
                    /\ UNCHANGED log
               ELSE IF SelfReplySkipped(is_own_tweet, draw, self_reply_chance)
               THEN /\ pc' = "top" /\ exc' = exc /\ ended' = "self_skip"
                    /\ UNCHANGED log
               ELSE IF g.raised
               THEN /\ pc' = "returned" /\ exc' = g.exc /\ ended' = "interrupted"
                    /\ log' = Append(log, gcall)
               ELSE IF ~Truthy(reply_text)
               THEN /\ pc' = "sleep" /\ exc' = exc /\ ended' = "normal"
                    /\ log' = Append(log, gcall)
               ELSE IF p.raised
               THEN /\ pc' = "returned" /\ exc' = p.exc /\ ended' = "interrupted"
                    /\ log' = log \o <<gcall, pcall>>
               ELSE /\ pc' = "sleep" /\ exc' = exc /\ ended' = "normal"
                    /\ log' = log \o <<gcall, pcall>>
    /\ UNCHANGED <<connections, tasks, self_task_weights, self_reply_chance, model_provider,
                   last_tweet_time, action_name, now, sleeps, posted, probeVars>>

\* Lines 202-217: like the next tweet of the buffer.
LikeTweet ==
    /\ pc = "act"
    /\ Branch(action_name) = "like-tweet"
    /\ IF LenRaises(timeline_tweets)
       THEN /\ pc' = "except" /\ exc' = "TypeError" /\ ended' = "error"
            /\ UNCHANGED <<timeline_tweets, log, fifoVars>>
       ELSE IF ~HasTweets(timeline_tweets)
       THEN /\ pc' = "sleep" /\ exc' = exc /\ ended' = "normal"
            /\ UNCHANGED <<timeline_tweets, log, fifoVars>>
       ELSE \E net \in Envs({PyDict}) :
         LET tweet == pop0(timeline_tweets.items).item
             tweet_id == tweet.id
             p == perform_action(connections, "twitter", "like-tweet", <<tweet_id>>, net)
             pcall == Call("twitter", "like-tweet", <<tweet_id>>, p)
         IN /\ timeline_tweets' = PyList(pop0(timeline_tweets.items).rest)
            /\ acted' = Append(acted, tweet)
            /\ UNCHANGED <<fetched, gate>>
            /\ IF ~Truthy(tweet_id)
               THEN /\ pc' = "top" /\ exc' = exc /\ ended' = "no_id"
                    /\ UNCHANGED log
               ELSE IF p.raised
               THEN /\ pc' = "returned" /\ exc' = p.exc /\ ended' = "interrupted"
                    /\ log' = Append(log, pcall)
               ELSE /\ pc' = "sleep" /\ exc' = exc /\ ended' = "normal"
                    /\ log' = Append(log, pcall)
    /\ UNCHANGED <<connections, tasks, self_task_weights, self_reply_chance, model_provider,
                   last_tweet_time, action_name, now, sleeps, posted, probeVars>>

\* A task name none of the branches handles falls through to the sleep.
OtherTask ==
    /\ pc = "act"
    /\ Branch(action_name) = "none"
    /\ pc' = "sleep"
    /\ ended' = "normal"
    /\ UNCHANGED <<connections, tasks, self_task_weights, self_reply_chance, model_provider,
                   timeline_tweets, last_tweet_time, action_name, now, exc, sleeps, log,
                   fifoVars, posted, probeVars>>

\* Lines 220-222: the sleep that ends an iteration.
Sleep ==
    /\ pc = "sleep"
    /\ now + loop_delay <= MaxTime
    /\ now' = now + loop_delay
    /\ sleeps' = sleeps + 1
    /\ pc' = "top"
    /\ UNCHANGED <<connections, tasks, self_task_weights, self_reply_chance, model_provider,
                   timeline_tweets, last_tweet_time, action_name, exc, ended, log, fifoVars,
                   posted, probeVars>>

\* Faulty variant: the handler logs and re-raises.
ExceptSleep_Reraise ==
    /\ pc = "except"
    /\ pc' = "raised"
    /\ UNCHANGED <<connections, tasks, self_task_weights, self_reply_chance, model_provider,
                   timeline_tweets, last_tweet_time, action_name, now, exc, ended, sleeps,
                   log, fifoVars, posted, probeVars>>

\* Lines 224-227: `except Exception`: log, sleep, next iteration.
ExceptSleep ==
    /\ pc = "except"
    /\ now + loop_delay <= MaxTime
    /\ now' = now + loop_delay
    /\ sleeps' = sleeps + 1
    /\ pc' = "top"
    /\ exc' = ""
    /\ UNCHANGED <<connections, tasks, self_task_weights, self_reply_chance, model_provider,
                   timeline_tweets, last_tweet_time, action_name, ended, log, fifoVars,
                   posted, probeVars>>

\* Ctrl+C between two steps.  Lines 229-231 catch it inside the loop; the
\* countdown of lines 111-115 is outside that try block.
Interrupt ==
    /\ pc \in {"warmup", "top", "select", "act", "sleep", "except"}
    /\ pc' = IF pc = "warmup" THEN "raised" ELSE "returned"
    /\ exc' = "KeyboardInterrupt"
    /\ UNCHANGED <<connections, tasks, self_task_weights, self_reply_chance, model_provider,
                   timeline_tweets, last_tweet_time, action_name, now, ended, sleeps, log,
                   fifoVars, posted, probeVars>>

\* Time passes while the loop runs.
Tick ==
    /\ pc \in {"top", "select", "act", "sleep", "except"}
    /\ now < MaxTime
    /\ now' = now + 1
    /\ UNCHANGED <<connections, tasks, self_task_weights, self_reply_chance, model_provider,
                   timeline_tweets, last_tweet_time, action_name, pc, exc, ended, sleeps,
                   log, fifoVars, posted, probeVars>>

Next ==
    \/ Setup
    \/ Warmup
    \/ Replenish
    \/ Select
    \/ PostThrottled
    \/ PostTweet
    \/ ReplyToTweet
    \/ LikeTweet
    \/ OtherTask
    \/ Sleep
    \/ ExceptSleep
    \/ Interrupt
    \/ Tick

Spec == Init /\ [][Next]_vars

-----------------------------------------------------------------------------
(* The dispatcher on its own: any connection name, action name and         *)
(* positional list, against any registry and any behaviour of the          *)
(* connection.                                                             *)

ProbeConnections == {"twitter", "anthropic", "discord"}
ProbeActions == DOMAIN TwitterActions \cup DOMAIN LLMActions \cup {"follow"}
ProbeValues == {PyStr("text", 0), PyStr("text", 5), PyStr("text", TweetLimit + 1), PyInt(7)}
ProbeParams == UNION {[1..n -> ProbeValues] : n \in 0..MaxParams}

InitD ==
    /\ connections \in SUBSET {"twitter", "anthropic"}
    /\ tasks = <<>>
    /\ self_task_weights = <<>>
    /\ self_reply_chance = 0
    /\ model_provider = ""
    /\ timeline_tweets = PyAbsent
    /\ last_tweet_time = 0
    /\ action_name = ""
    /\ now = StartTime
    /\ pc = "setup"
    /\ exc = ""
    /\ ended = "none"
    /\ sleeps = 0
    /\ log = <<>>
    /\ fetched = <<>>
    /\ acted = <<>>
    /\ gate = NoGate
    /\ posted = <<>>
    /\ d_call \in [connection_name : ProbeConnections, action_name : ProbeActions,
                   params : ProbeParams, env : Envs({PyDict})]
    /\ d_result = NoResult
    /\ profile = NoProfile
    /\ agent = NoAgent
    /\ PromptIdle
    /\ ConnIdle

\* One call of ConnectionManager.perform_action with the inputs drawn.
Dispatch ==
    /\ d_result.reason = "pending"
    /\ d_result' = perform_action(connections, d_call.connection_name, d_call.action_name,
                                  d_call.params, d_call.env)
    /\ UNCHANGED <<loopVars, d_call, buildVars, promptVars, connVars>>

NextD == Dispatch

SpecD == InitD /\ [][NextD]_vars

Called == d_result.reason # "pending"

\* The number of parameters the called action declares required.
DeclaredRequired(cn, an) ==
    Cardinality({i \in 1..Len(ConnectionActions(cn)[an]) : ConnectionActions(cn)[an][i].required})

KnownAction(cn, an) == cn \in connections /\ an \in DOMAIN ConnectionActions(cn)

\* C1: the dispatcher never raises an ordinary exception: every call returns
\* the connection's result or None, also when the connection's action raises.
C1_DispatcherNeverRaises ==
    Called =>
        /\ d_result.raised => ~IsException(d_result.exc)
        /\ ~d_result.raised =>
             \/ d_result.ret = PyNone
             \/ d_result.invoked /\ d_result.ret = d_call.env.data

\* C1 witness: the connection's action raised and the call returned None.
C1_Witness ==
    /\ Called
    /\ d_result.invoked
    /\ d_call.env.net = "fail"
    /\ ~d_result.raised
    /\ d_result.ret = PyNone
    /\ d_result.reason = "Exception"

\* C2: a positional list whose length differs from the number of required
\* parameters of the action (shorter or longer) yields None and the
\* connection's perform_action is not called.
C2_ArityExactMatch ==
    (/\ Called
     /\ KnownAction(d_call.connection_name, d_call.action_name)
     /\ Len(d_call.params) # DeclaredRequired(d_call.connection_name, d_call.action_name))
    => /\ ~d_result.raised
       /\ d_result.ret = PyNone
       /\ ~d_result.invoked

\* C2 witness: reply-to-tweet (two required parameters) called with three.
C2_Witness ==
    /\ Called
    /\ d_call.connection_name = "twitter"
    /\ "twitter" \in connections
    /\ d_call.env.configured
    /\ d_call.action_name = "reply-to-tweet"
    /\ Len(d_call.params) = 3
    /\ d_result.reason = "ParameterCountMismatch"
    /\ d_result.ret = PyNone
    /\ ~d_result.invoked

\* C3: the checks run in the order connection, configured, action, arity;
\* each failing check yields None without calling the connection's
\* perform_action, and the first failing check is the one reported.
C3_ClassificationOrder ==
    Called =>
        LET cn == d_call.connection_name
            an == d_call.action_name
            null == ~d_result.raised /\ d_result.ret = PyNone /\ ~d_result.invoked
        IN /\ cn \notin connections => null /\ d_result.reason = "Exception"
           /\ (cn \in connections /\ ~d_call.env.configured)
                => null /\ d_result.reason = "NotConfigured"
           /\ (cn \in connections /\ d_call.env.configured
                 /\ an \notin DOMAIN ConnectionActions(cn))
                => null /\ d_result.reason = "UnknownAction"
           /\ (cn \in connections /\ d_call.env.configured /\ KnownAction(cn, an)
                 /\ Len(d_call.params) # DeclaredRequired(cn, an))
                => null /\ d_result.reason = "ParameterCountMismatch"

\* C3 witness: a registered connection that is not configured, asked for an
\* action it does not have: the call is refused as not configured.
C3_Witness ==
    /\ Called
    /\ d_call.connection_name \in connections
    /\ ~d_call.env.configured
    /\ d_call.action_name \notin DOMAIN ConnectionActions(d_call.connection_name)
    /\ d_result.reason = "NotConfigured"
    /\ d_result.ret = PyNone

-----------------------------------------------------------------------------
(* The loop *)

Stopped == {"returned", "raised"}

\* The step is the Ctrl+C between two steps (no call was under way).
InterruptStep == pc' \in Stopped /\ pc \notin Stopped /\ log' = log /\ exc' = "KeyboardInterrupt"

CallsOf(l, name) == {i \in 1..Len(l) : l[i].action_name = name}

\* The ids of the tweets written by the agent itself.
OwnTweetIds == {t.id : t \in {u \in Tweets : Lower(u.author_username) = username}}

\* C4: an exception raised in an iteration is caught at the iteration
\* boundary, is followed by exactly one loop-delay sleep and then by the next
\* iteration; the loop stops only on Ctrl+C (or before its first iteration,
\* when no LLM provider is configured).
C4_IterationFailureNotFatal ==
    [][/\ (exc' # exc /\ exc' # "" /\ IsException(exc') /\ pc # "setup") => pc' = "except"
       /\ (pc = "except" /\ pc' # "except") =>
            \/ pc' = "top" /\ sleeps = 0 /\ sleeps' = 1 /\ now' = now + loop_delay
            \/ pc' = "returned" /\ exc' = "KeyboardInterrupt"
       /\ (pc' = "top" /\ ended' = "error") => sleeps' = 1
       /\ (pc' \in Stopped /\ pc \notin Stopped) =>
            exc' = "KeyboardInterrupt" \/ pc = "setup"]_vars

\* C4 witness: an iteration failed, the loop slept once and is at the top of
\* the next iteration.
C4_Witness == pc = "top" /\ ended = "error" /\ sleeps = 1 /\ exc = ""

\* C5: after a read-timeline that returned None the next iteration calls
\* read-timeline again.
C5_FailedReplenishRetried ==
    [][(pc = "top" /\ timeline_tweets = PyNone /\ pc' # "top" /\ ~InterruptStep) =>
          /\ Len(log') = 1
          /\ log'[1].action_name = "read-timeline"]_vars

\* C6: a post selection made before the tweet interval has elapsed makes no
\* call at all; one made at or after it calls generate-text and, when the
\* text is non-empty, dispatches exactly one post-tweet.
C6_PostGating ==
    [][(pc = "act" /\ action_name = "post-tweet" /\ pc' # "act" /\ ~InterruptStep) =>
          IF now - last_tweet_time < tweet_interval
          THEN log' = log
          ELSE /\ Len(log') > Len(log)
               /\ SubSeq(log', 1, Len(log)) = log
               /\ log'[Len(log) + 1].action_name = "generate-text"
               /\ CallsOf(log', "generate-text") = {Len(log) + 1}
               /\ Cardinality(CallsOf(log', "post-tweet")) =
                    IF Truthy(log'[Len(log) + 1].result.ret) THEN 1 ELSE 0
               /\ \A i \in CallsOf(log', "post-tweet") :
                    log'[i].params = <<log'[Len(log) + 1].result.ret>>]_vars

\* C6 witness: after an earlier post, a post selection one tick short of the
\* interval was throttled.
C6_Witness ==
    /\ pc = "top"
    /\ ended = "throttled"
    /\ last_tweet_time > 0
    /\ now = last_tweet_time + tweet_interval - 1

\* C7: a post-tweet dispatch that returns None leaves last_tweet_time as it was.
C7_NullPostKeepsTimestamp ==
    [][(pc = "act" /\ action_name = "post-tweet" /\ pc' = "sleep"
          /\ \E i \in CallsOf(log', "post-tweet") : log'[i].result.ret = PyNone)
       => last_tweet_time' = last_tweet_time]_vars

\* C8: after a throttled post selection the loop sleeps loop_delay before the
\* next iteration begins.
C8_ThrottledPostSleeps ==
    (pc = "top" /\ ended = "throttled") => sleeps = 1

\* C9: a throttled post selection changes neither last_tweet_time nor the
\* timeline buffer and dispatches nothing.
C9_ThrottledPostNoEffect ==
    [][(pc = "act" /\ action_name = "post-tweet" /\ pc' # "act"
          /\ now - last_tweet_time < tweet_interval)
       => /\ last_tweet_time' = last_tweet_time
          /\ timeline_tweets' = timeline_tweets
          /\ log' = log]_vars

\* C9 witness: a post selection was throttled with tweets waiting in the buffer.
C9_Witness ==
    /\ pc = "top"
    /\ ended = "throttled"
    /\ timeline_tweets.k = "list"
    /\ timeline_tweets.n > 0
    /\ log = <<>>

\* C10: with self_reply_chance = 0 no reply is dispatched for a tweet of the
\* agent's own, whatever the draw.
C10_NoSelfReplyAtZeroChance ==
    self_reply_chance = 0 =>
        \A i \in CallsOf(log, "reply-to-tweet") : log[i].params[1] \notin OwnTweetIds

\* C11: with self_reply_chance = 1 a tweet of the agent's own that carries an
\* id is never skipped: whatever the draw, the reply selection calls
\* generate-text and, when the text is non-empty, dispatches the reply.
C11_SelfReplyAlwaysAtFullChance ==
    [][(/\ pc = "act" /\ action_name = "reply-to-tweet" /\ pc' # "act"
        /\ self_reply_chance = 100
        /\ HasTweets(timeline_tweets)
        /\ Truthy(Head(timeline_tweets.items).id)
        /\ Lower(Head(timeline_tweets.items).author_username) = username
        /\ ~InterruptStep)
       => /\ ended' # "self_skip"
          /\ Len(log') > Len(log)
          /\ log'[Len(log) + 1].action_name = "generate-text"
          /\ Truthy(log'[Len(log) + 1].result.ret) =>
               \E i \in CallsOf(log', "reply-to-tweet") :
                  log'[i].params = <<Head(timeline_tweets.items).id,
                                     log'[Len(log) + 1].result.ret>>]_vars

\* C11 witness: at chance 1 a reply to a tweet of the agent's own was dispatched.
C11_Witness ==
    /\ self_reply_chance = 100
    /\ pc = "sleep"
    /\ \E i \in CallsOf(log, "reply-to-tweet") :
         /\ log[i].params[1] \in OwnTweetIds
         /\ log[i].result.invoked

\* C12: between two replenishes the buffer is consumed first-in first-out:
\* the tweets taken out, in the order taken, followed by the tweets still in
\* the buffer are the sequence the replenish stored, and a like or reply is
\* dispatched for the tweet taken out last.
C12_FifoConsumption ==
    /\ timeline_tweets.k = "list" => acted \o timeline_tweets.items = fetched
    /\ \A i \in CallsOf(log, "like-tweet") \cup CallsOf(log, "reply-to-tweet") :
         /\ acted # <<>>
         /\ log[i].params[1] = acted[Len(acted)].id

\* C12 witness: of a replenished buffer of two different tweets both were
\* taken out, the second one by a like.
C12_Witness ==
    /\ Len(fetched) = 2
    /\ fetched[1] # fetched[2]
    /\ acted = fetched
    /\ timeline_tweets = PyList(<<>>)
    /\ \E i \in CallsOf(log, "like-tweet") : log[i].params[1] = fetched[2].id

\* C13: a Ctrl+C delivered at any suspension point (the warmup countdown, a
\* replenish, LLM or post/reply/like call, a sleep) ends loop() by a plain
\* return: the KeyboardInterrupt never leaves loop().
C13_InterruptReturnsCleanly ==
    exc = "KeyboardInterrupt" => pc = "returned"

\* The positions of loop() inside an iteration of `while True`.
InIteration == {"top", "select", "act", "sleep", "except"}

\* C14: a KeyboardInterrupt raised while an iteration is blocked (in a call
\* made through the dispatcher or in a sleep) is not an iteration failure: the
\* dispatcher lets it through, the iteration's handler does not take it, the
\* loop stops by returning and no further iteration starts.
C14_InterruptNotIterationFailure ==
    [][/\ \A i \in 1..Len(log') :
            log'[i].result.exc = "KeyboardInterrupt" =>
               /\ log'[i].result.raised
               /\ pc' = "returned"
               /\ exc' = "KeyboardInterrupt"
       /\ (pc \in InIteration /\ exc' = "KeyboardInterrupt") => pc' = "returned"
       /\ pc \in Stopped =>
            /\ pc' = pc
            /\ log' = log
            /\ sleeps' = sleeps
            /\ timeline_tweets' = timeline_tweets]_vars

\* C14 witness: the interrupt arrived in the post-tweet request, after the
\* text had been generated; the loop has returned.
C14_Witness ==
    /\ pc = "returned"
    /\ exc = "KeyboardInterrupt"
    /\ Len(log) = 2
    /\ log[1].action_name = "generate-text"
    /\ log[2].action_name = "post-tweet"
    /\ log[2].result.invoked
    /\ log[2].result.raised
    /\ log[2].result.exc = "KeyboardInterrupt"

-----------------------------------------------------------------------------
(* Construction on its own: any profile, one call of YukinaAgent(name).    *)

LoopIdle ==
    /\ connections = {}
    /\ tasks = <<>>
    /\ self_task_weights = <<>>
    /\ self_reply_chance = 0
    /\ model_provider = ""
    /\ timeline_tweets = PyAbsent
    /\ last_tweet_time = 0
    /\ action_name = ""
    /\ now = StartTime
    /\ pc = "setup"
    /\ exc = ""
    /\ ended = "none"
    /\ sleeps = 0
    /\ log = <<>>
    /\ fetched = <<>>
    /\ acted = <<>>
    /\ gate = NoGate
    /\ posted = <<>>

InitC ==
    /\ LoopIdle
    /\ d_call = NoCall
    /\ d_result = NoResult
    /\ profile \in Profiles
    /\ agent = NoAgent
    /\ PromptIdle
    /\ ConnIdle

\* One call of the constructor on the profile drawn.
Construct ==
    /\ agent.status = "pending"
    /\ agent' = YukinaAgent(profile)
    /\ UNCHANGED <<loopVars, d_call, d_result, profile, promptVars, connVars>>

NextC == Construct

SpecC == InitC /\ [][NextC]_vars

Constructed == agent.status # "pending"

\* C15: a profile that lacks one or more of the required fields is refused:
\* the constructor raises, no agent is produced and the message lists every
\* missing field.
C15_MissingFieldsAllNamed ==
    (Constructed /\ Range(REQUIRED_FIELDS) \ profile.keys # {}) =>
        /\ agent.status = "failed"
        /\ agent.exc = "KeyError"
        /\ agent.text = "Missing required fields"
        /\ Range(agent.fields) = Range(REQUIRED_FIELDS) \ profile.keys

\* C15 witness: a profile without "bio" and without "tasks" was refused with
\* both fields in the message.
C15_Witness ==
    /\ Constructed
    /\ Range(REQUIRED_FIELDS) \ profile.keys = {"bio", "tasks"}
    /\ agent.status = "failed"
    /\ agent.fields = <<"bio", "tasks">>

\* The blocks of the profile's config list named "twitter".
TwitterBlocksOf(p) ==
    {i \in 1..Len(p.config) :
        "name" \in DOMAIN p.config[i] /\ p.config[i]["name"] = PyStr("twitter", 7)}

\* C16: a twitter block with an invalid tuning value (a required tuning key
\* missing, timeline_read_count or tweet_interval not a positive integer,
\* self_reply_chance negative or not a float) aborts the construction: no
\* agent is produced.
C16_InvalidTuningFatal ==
    (/\ Constructed
     /\ \E i \in TwitterBlocksOf(profile) : validate_config(profile.config[i]).status = "failed")
    => agent.status = "failed"

\* C17: a profile whose config list has no block named "twitter" is refused,
\* whatever other connections it lists.
C17_TwitterBlockRequired ==
    (Constructed /\ TwitterBlocksOf(profile) = {}) => agent.status = "failed"

\* C17 witness: a complete profile that lists an LLM connection and an
\* unknown one but no twitter block was refused for the missing twitter block.
C17_Witness ==
    /\ Constructed
    /\ profile.keys = Range(REQUIRED_FIELDS)
    /\ Len(profile.config) = 2
    /\ "name" \in DOMAIN profile.config[1]
    /\ profile.config[1]["name"] = PyStr("anthropic", 9)
    /\ "name" \in DOMAIN profile.config[2]
    /\ TwitterBlocksOf(profile) = {}
    /\ agent.status = "failed"
    /\ agent.exc = "KeyError"
    /\ agent.text = "Twitter configuration is required"

-----------------------------------------------------------------------------
(* The prompt constructor on its own: any persona, calls of                *)
(* _construct_system_prompt and assignments to the persona in between.     *)

BioLines == {"I am Yukina.", "I watch the markets."}
TraitLines == {"curious", "calm"}
ExampleLines == {"The tape never lies."}

Lists(S) == UNION {[1..n -> S] : n \in 0..MaxLines}

InitP ==
    /\ LoopIdle
    /\ d_call = NoCall
    /\ d_result = NoResult
    /\ profile = NoProfile
    /\ agent = NoAgent
    /\ bio \in Lists(BioLines)
    /\ traits \in Lists(TraitLines)
    /\ examples \in Lists(ExampleLines)
    /\ _system_prompt = NoPrompt
    /\ returned = <<>>
    /\ edits = 0
    /\ passed = <<>>
    /\ ConnIdle

\* One call of _construct_system_prompt.
ConstructSystemPrompt ==
    /\ Len(returned) < MaxCalls
    /\ _system_prompt' = construct_system_prompt(_system_prompt, bio, traits, examples)
    /\ returned' = Append(returned, [text |-> _system_prompt'.text, edits |-> edits])
    /\ UNCHANGED <<loopVars, d_call, d_result, buildVars, bio, traits, examples, edits,
                   passed, connVars>>

\* The lists one assignment can put in the place of list l: one line more
\* or the last line less.
Edited(l, S) ==
    {Append(l, x) : x \in {y \in S : Len(l) < MaxLines}}
    \cup {SubSeq(l, 1, Len(l) - 1) : x \in {y \in S : l # <<>>}}

\* An assignment to bio, traits or examples of the constructed agent.
Mutate ==
    /\ edits < MaxEdits
    /\ edits' = edits + 1
    /\ \/ bio' \in Edited(bio, BioLines) /\ UNCHANGED <<traits, examples>>
       \/ traits' \in Edited(traits, TraitLines) /\ UNCHANGED <<bio, examples>>
       \/ examples' \in Edited(examples, ExampleLines) /\ UNCHANGED <<bio, traits>>
    /\ UNCHANGED <<loopVars, d_call, d_result, buildVars, _system_prompt, returned, passed,
                   connVars>>

\* The callers of prompt_llm in loop(): the post branch passes no system
\* prompt (line 148), the reply branch the one of lines 187-192.
PromptKinds == {"post", "reply", "self-reply"}

\* One call of prompt_llm from loop(), up to the system prompt it hands to
\* the dispatcher.
PromptLLM ==
    /\ Len(passed) < MaxCalls
    /\ \E kind \in PromptKinds :
         LET r == IF kind = "post"
                  THEN Prompted(_system_prompt, NoPrompt)
                  ELSE reply_system_prompt(kind = "self-reply", _system_prompt,
                                           bio, traits, examples)
             q == llm_system_prompt(r.system_prompt, r.cache, bio, traits, examples)
         IN /\ _system_prompt' = q.cache
            /\ passed' = Append(passed, [kind |-> kind, text |-> q.system_prompt.text])
    /\ UNCHANGED <<loopVars, d_call, d_result, buildVars, bio, traits, examples, returned,
                   edits, connVars>>

NextP ==
    \/ ConstructSystemPrompt
    \/ Mutate

SpecP == InitP /\ [][NextP]_vars

\* C18: the system prompt is memoized: once it has been constructed every
\* later call returns the same string and leaves the cache alone, also after
\* bio, traits or examples have been assigned to.
C18_PromptMemoized ==
    /\ \A i, j \in 1..Len(returned) : returned[i].text = returned[j].text
    /\ returned # <<>> => _system_prompt = Cached(returned[1].text)

\* C18 witness: bio, traits or examples changed between two calls, the
\* persona now reads differently, and both calls returned the same string.
C18_Witness ==
    /\ Len(returned) = 2
    /\ returned[1].edits < returned[2].edits
    /\ returned[1].text = returned[2].text
    /\ Join(prompt_parts(bio, traits, examples)) # returned[2].text

\* A section of the prompt: nothing for an empty list, else the header and
\* one bullet per element.
Section(header, l) ==
    IF l = <<>> THEN <<>> ELSE <<header>> \o [i \in 1..Len(l) |-> Bullet(l[i])]

\* C19: the prompt constructed is the newline-join of the bio lines, then
\* (only if traits is not empty) the traits header and one bulleted line per
\* trait, then (only if examples is not empty) the examples header and one
\* bulleted line per example, all in the order of the lists.
C19_PromptAssembly ==
    [][(~_system_prompt.set /\ _system_prompt'.set) =>
          _system_prompt'.text =
             Join([i \in 1..Len(bio) |-> Str(bio[i])]
                  \o Section(TraitsHeader, traits)
                  \o Section(ExamplesHeader, examples))]_vars

\* C19 witness: a prompt was constructed from two different bio lines, no
\* trait and one example.
C19_Witness ==
    /\ _system_prompt.set
    /\ edits = 0
    /\ Len(bio) = 2
    /\ bio[1] # bio[2]
    /\ traits = <<>>
    /\ examples # <<>>
    /\ _system_prompt.text =
         <<<<bio[1]>>, <<bio[2]>>, <<>>,
           <<"Here are some examples of your style (Please avoid repeating any of these):">>,
           <<"- ", examples[1]>>>>

-----------------------------------------------------------------------------
(* A connection's perform_action on its own: any action name and any       *)
(* keyword map handed to TwitterConnection.perform_action.                 *)

KwNames == {"username", "count", "message", "tweet_id"}
KwArgs == UNION {[S -> ProbeValues] : S \in SUBSET KwNames}

InitK ==
    /\ LoopIdle
    /\ d_call = NoCall
    /\ d_result = NoResult
    /\ profile = NoProfile
    /\ agent = NoAgent
    /\ PromptIdle
    /\ k_call \in [action_name : ProbeActions, kwargs : KwArgs, env : Envs({PyDict})]
    /\ k_result = NoKResult
    /\ i_call = NoICall
    /\ i_result = NoIResult

\* One call of TwitterConnection.perform_action with the inputs drawn.
PerformAction ==
    /\ k_result.method = "pending"
    /\ k_result' = TwitterPerformActionTraced(k_call.action_name, k_call.kwargs, k_call.env)
    /\ UNCHANGED <<loopVars, d_call, d_result, buildVars, promptVars, k_call, i_call, i_result>>

NextK == PerformAction

SpecK == InitK /\ [][NextK]_vars

KCalled == k_result.method # "pending"

\* The required parameters of action an that kw lacks or gives a value of
\* another type than the one declared.
BadParams(an, kw) ==
    {i \in 1..Len(TwitterActions[an]) :
        /\ TwitterActions[an][i].required
        /\ \/ TwitterActions[an][i].name \notin DOMAIN kw
           \/ kw[TwitterActions[an][i].name].k # TwitterActions[an][i].type}

\* C20: perform_action of the connection raises KeyError for a name that is
\* not in its action map and ValueError when a required parameter is missing
\* or malformed, in both cases without calling the action's method.
C20_ConnectionRejectsBeforeCall ==
    KCalled =>
        /\ k_call.action_name \notin DOMAIN TwitterActions =>
             /\ k_result.raised
             /\ k_result.exc = "KeyError"
             /\ k_result.method = "None"
        /\ (/\ k_call.action_name \in DOMAIN TwitterActions
            /\ BadParams(k_call.action_name, k_call.kwargs) # {}) =>
             /\ k_result.raised
             /\ k_result.exc = "ValueError"
             /\ k_result.method = "None"

\* C20 witness: reply-to-tweet called with a tweet id and no message, on a
\* working network: ValueError, reply_to_tweet not called.
C20_Witness ==
    /\ KCalled
    /\ k_call.action_name = "reply-to-tweet"
    /\ DOMAIN k_call.kwargs = {"tweet_id"}
    /\ k_call.kwargs["tweet_id"].k = "str"
    /\ k_call.env.net = "ok"
    /\ k_result.raised
    /\ k_result.exc = "ValueError"
    /\ k_result.method = "None"

\* C21: a post-tweet or reply-to-tweet whose text is empty or longer than 280
\* characters is refused by the connection before it makes an HTTP request;
\* the dispatcher turns the ValueError into None and raises nothing,
\* whatever the network would have done.
C21_InvalidTextRejectedBeforeRequest ==
    (/\ Called
     /\ d_result.invoked
     /\ d_call.connection_name = "twitter"
     /\ d_call.action_name \in {"post-tweet", "reply-to-tweet"}
     /\ d_result.kwargs["message"].k = "str"
     /\ \/ d_result.kwargs["message"].n = 0
        \/ d_result.kwargs["message"].n > TweetLimit)
    => /\ d_result.requests = 0
       /\ d_result.exc = "ValueError"
       /\ d_result.reason = "Exception"
       /\ ~d_result.raised
       /\ d_result.ret = PyNone

\* C21 witness: a reply of 281 characters to a well-formed tweet id, on a
\* working network, came back as None without a request.
C21_Witness ==
    /\ Called
    /\ d_result.invoked
    /\ d_call.connection_name = "twitter"
    /\ d_call.action_name = "reply-to-tweet"
    /\ d_call.params = <<PyStr("text", 5), PyStr("text", TweetLimit + 1)>>
    /\ d_call.env.net = "ok"
    /\ d_result.requests = 0
    /\ d_result.ret = PyNone
    /\ d_result.reason = "Exception"

\* The dispatches an iteration makes for the task it selected.
TaskCalls == {"generate-text", "post-tweet", "reply-to-tweet", "like-tweet"}

\* C22: the steps of an iteration run in order and one iteration at a time:
\* the replenish check (with its read-timeline call, if any) comes first, the
\* selection is made only after it, and generate-text, post, reply and like
\* are dispatched only after the selection, before the next replenish check.
C22_IterationOrder ==
    [][/\ (pc' = "select" /\ pc # "select") => pc = "top"
       /\ (pc' = "act" /\ pc # "act") => pc = "select"
       /\ action_name' # action_name => pc = "select"
       /\ (pc = "top" /\ pc' # "top" /\ ~InterruptStep) =>
            /\ \A i \in 1..Len(log') : log'[i].action_name = "read-timeline"
            /\ Len(log') <= 1
       /\ (pc # "top" /\ log' # log) =>
            /\ pc = "act"
            /\ Len(log') > Len(log)
            /\ SubSeq(log', 1, Len(log)) = log
            /\ \A i \in (Len(log) + 1)..Len(log') : log'[i].action_name \in TaskCalls
       /\ (pc = "act" /\ pc' # "act") => pc' \in {"sleep", "top", "except", "returned"}]_vars

\* C22 witness: an iteration read the timeline, then selected the reply and
\* then dispatched generate-text and reply-to-tweet, in that order.
C22_Witness ==
    /\ pc = "sleep"
    /\ Len(log) = 3
    /\ log[1].action_name = "read-timeline"
    /\ log[2].action_name = "generate-text"
    /\ log[3].action_name = "reply-to-tweet"

-----------------------------------------------------------------------------
(* TwitterConnection.is_configured on its own: either value of verbose,    *)
(* any set of environment variables and any outcome of the remote call.    *)

EnvNames == required_vars \cup {"TWITTER_USERNAME"}
Remotes == {"ok", "fail", "interrupt"}

InitI ==
    /\ LoopIdle
    /\ d_call = NoCall
    /\ d_result = NoResult
    /\ profile = NoProfile
    /\ agent = NoAgent
    /\ PromptIdle
    /\ k_call = NoKCall
    /\ k_result = NoKResult
    /\ i_call \in [verbose : BOOLEAN, environ : SUBSET EnvNames, remote : Remotes]
    /\ i_result = NoIResult

\* One call of TwitterConnection.is_configured with the inputs drawn.
IsConfigured ==
    /\ i_result.pending
    /\ i_result' = is_configured(i_call.verbose, i_call.environ, i_call.remote)
    /\ UNCHANGED <<loopVars, d_call, d_result, buildVars, promptVars, k_call, k_result, i_call>>

NextI == IsConfigured

SpecI == InitI /\ [][NextI]_vars

ICalled == ~i_result.pending

\* C23: is_configured raises no exception, for either value of verbose: it
\* returns False when a credential is missing or the remote validation call
\* fails, and True only when the credentials are complete and the validation
\* call succeeds.  Only an interrupt of the user leaves it.
C23_IsConfiguredNeverRaises ==
    ICalled =>
        /\ i_result.raised => ~IsException(i_result.exc)
        /\ i_call.remote # "interrupt" => ~i_result.raised
        /\ ~i_result.raised =>
             i_result.ret = PyBool(/\ required_vars \subseteq i_call.environ
                                   /\ i_call.remote = "ok")

\* C23 witness: all credentials set, the validation call fails, verbose off:
\* False is returned and nothing is logged.
C23_Witness ==
    /\ ICalled
    /\ required_vars \subseteq i_call.environ
    /\ i_call.remote = "fail"
    /\ ~i_call.verbose
    /\ ~i_result.raised
    /\ i_result.ret = PyBool(FALSE)
    /\ ~i_result.logged

-----------------------------------------------------------------------------

\* The names the action's table declares required / optional.
RequiredNames(cn, an) ==
    {ConnectionActions(cn)[an][i].name :
        i \in {j \in 1..Len(ConnectionActions(cn)[an]) : ConnectionActions(cn)[an][j].required}}

-----------------------------------------------------------------------------

\* C26: the self-reply gate.  When a reply reaches line 175 the tweet taken
\* from the buffer is the agent's own exactly when its author, lower-cased,
\* is the agent's username; random.random() is drawn for an own tweet only;
\* the reply is skipped exactly when the tweet is the agent's own and the draw
\* is above self_reply_chance, and otherwise goes on to generate-text.
C26_SelfReplyGate ==
    /\ ended = "self_skip" => gate.reached
    /\ gate.reached =>
         LET tweet == acted[Len(acted)]
             own == tweet.id \in OwnTweetIds
         IN /\ (gate.drawn # <<>>) <=> own
            /\ ended = "self_skip" <=> (own /\ gate.drawn[1] > self_reply_chance)
            /\ ended # "self_skip" => CallsOf(log, "generate-text") # {}

\* C26 witness: an own tweet, a draw equal to the chance: the reply goes on.
C26_Witness ==
    /\ gate.reached
    /\ gate.drawn = <<5>>
    /\ self_reply_chance = 5
    /\ acted[Len(acted)].id \in OwnTweetIds
    /\ ended = "normal"
    /\ \E i \in CallsOf(log, "reply-to-tweet") : log[i].params[1] \in OwnTweetIds

-----------------------------------------------------------------------------

\* The step is the reply or like branch run on a buffer that holds a tweet.
PopStep ==
    /\ pc = "act"
    /\ pc' # "act"
    /\ action_name \in {"reply-to-tweet", "like-tweet"}
    /\ HasTweets(timeline_tweets)
    /\ ~InterruptStep

\* The step is the replenish check at the top of an iteration.
ReplenishStep == pc = "top" /\ pc' # "top" /\ ~InterruptStep

\* C27: a reply or like branch run on a non-empty buffer takes exactly the
\* front tweet out, whatever comes of it, and the reply or like it dispatches
\* is for that tweet; the tweets left keep their order and nothing is put
\* back; no step but these and the replenish changes the buffer.
C27_DequeuedOnce ==
    [][/\ PopStep =>
            /\ timeline_tweets' = PyList(Tail(timeline_tweets.items))
            /\ acted' = Append(acted, Head(timeline_tweets.items))
            /\ \A i \in (Len(log) + 1)..Len(log') :
                  log'[i].action_name \in {"reply-to-tweet", "like-tweet"} =>
                      log'[i].params[1] = Head(timeline_tweets.items).id
       /\ (~PopStep /\ ~ReplenishStep) => timeline_tweets' = timeline_tweets]_vars

\* C27 witness: a tweet without an id was taken out by a branch that then
\* gave up, and the second tweet of the read is now at the front.
C27_Witness ==
    /\ ended = "no_id"
    /\ pc = "top"
    /\ Len(fetched) = 2
    /\ acted = <<fetched[1]>>
    /\ fetched[1].id = PyNone
    /\ timeline_tweets = PyList(<<fetched[2]>>)

-----------------------------------------------------------------------------

\* C28: the replenish check at the top of an iteration calls read-timeline,
\* once and with an empty positional list, exactly when the buffer is missing
\* or has zero length, and installs what the call returned as the buffer;
\* with anything else in the buffer it calls nothing and leaves the buffer
\* alone; no other step calls read-timeline.
C28_ReplenishIffEmpty ==
    [][/\ ReplenishStep =>
            IF \/ timeline_tweets.k = "absent"
               \/ timeline_tweets.k = "list" /\ Len(timeline_tweets.items) = 0
            THEN /\ Len(log') = 1
                 /\ log'[1].connection_name = "twitter"
                 /\ log'[1].action_name = "read-timeline"
                 /\ log'[1].params = <<>>
                 /\ ~log'[1].result.raised => timeline_tweets' = log'[1].result.ret
            ELSE /\ log' = <<>>
                 /\ timeline_tweets' = timeline_tweets
       /\ ~ReplenishStep =>
            CallsOf(log', "read-timeline") = CallsOf(log, "read-timeline")]_vars

\* C28 witness: the iteration after a like that emptied the buffer has read
\* the timeline again and holds the tweets it returned.
C28_Witness ==
    /\ pc = "select"
    /\ action_name = "like-tweet"
    /\ Len(log) = 1
    /\ log[1].action_name = "read-timeline"
    /\ HasTweets(timeline_tweets)
    /\ timeline_tweets = log[1].result.ret
    /\ acted = <<>>

-----------------------------------------------------------------------------

\* C29: state["timeline_tweets"] is missing or a list, never None, so that
\* len() of it can be taken at lines 124, 166 and 203.
C29_BufferNeverNull ==
    /\ timeline_tweets.k \in {"absent", "list"}
    /\ ~LenRaises(timeline_tweets)

-----------------------------------------------------------------------------

\* C30: whenever the loop is back at the top after an iteration, however the
\* iteration ended, it has slept loop_delay exactly once since that iteration
\* began.
C30_EveryIterationSleeps ==
    (pc = "top" /\ ended \in {"normal", "no_id", "self_skip", "throttled", "error"}) =>
        sleeps = 1

-----------------------------------------------------------------------------

\* C31: the gating timestamps of any two post-tweet dispatches of a run lie
\* at least tweet_interval apart; last_tweet_time is zero until the first
\* dispatch and afterwards the timestamp of a dispatch, never behind an
\* earlier one and never ahead of the clock.
C31_PostRateLimit ==
    /\ \A i, j \in 1..Len(posted) : i < j => posted[j] - posted[i] >= tweet_interval
    /\ last_tweet_time \in {0} \cup {posted[i] : i \in 1..Len(posted)}
    /\ \A i \in 1..(Len(posted) - 1) : posted[i] <= last_tweet_time
    /\ (posted # <<>> /\ pc \notin Stopped) => last_tweet_time = posted[Len(posted)]
    /\ last_tweet_time <= now

\* C31 witness: two posts were dispatched, the second one exactly
\* tweet_interval after the first and with a dispatch that returned None.
C31_Witness ==
    /\ Len(posted) = 2
    /\ posted[2] = posted[1] + tweet_interval
    /\ last_tweet_time = posted[2]
    /\ \E i \in CallsOf(log, "post-tweet") : log[i].result.ret = PyNone

-----------------------------------------------------------------------------

\* The text is None or the empty string.
NoText(v) == v.k = "NoneType" \/ (v.k = "str" /\ v.n = 0)

\* C32: no post-tweet or reply-to-tweet is dispatched with a text that is
\* None or empty; an iteration whose generate-text call returned None or ""
\* dispatches no post and no reply, leaves last_tweet_time where the gate
\* found it and ends with the normal sleep, not in the exception handler.
C32_NoEmptyTextDispatched ==
    /\ \A i \in CallsOf(log, "post-tweet") : ~NoText(log[i].params[1])
    /\ \A i \in CallsOf(log, "reply-to-tweet") : ~NoText(log[i].params[2])
    /\ \A i \in CallsOf(log, "generate-text") :
         (~log[i].result.raised /\ NoText(log[i].result.ret)) =>
            /\ CallsOf(log, "post-tweet") = {}
            /\ CallsOf(log, "reply-to-tweet") = {}
            /\ ended = "normal"
            /\ pc \in {"sleep", "top", "returned"}
            /\ pc = "top" => sleeps = 1
            /\ exc \in {"", "KeyboardInterrupt"}
            /\ action_name = "post-tweet" => now - last_tweet_time >= tweet_interval
            /\ posted # <<>> => last_tweet_time = posted[Len(posted)]

\* C32 witness: after an earlier post, a post selection whose LLM dispatch
\* failed and returned None: nothing was posted, the loop is in its sleep.
C32_Witness ==
    /\ pc = "sleep"
    /\ action_name = "post-tweet"
    /\ Len(posted) = 1
    /\ last_tweet_time = posted[1]
    /\ Len(log) = 1
    /\ log[1].action_name = "generate-text"
    /\ log[1].result.ret = PyNone
    /\ log[1].result.reason = "Exception"

-----------------------------------------------------------------------------

\* The step runs the branch of the selected task to its end.
ActStep == pc = "act" /\ pc' # "act" /\ ~InterruptStep

\* The calls of the given names the step added to the log.
NewCalls(names) == {i \in (Len(log) + 1)..Len(log') : log'[i].action_name \in names}

\* C33: the branch of an iteration dispatches at most one post, reply or
\* like and at most one generate-text, and only what the selected task calls
\* for: a post selection neither replies nor likes, a reply selection neither
\* posts nor likes, a like selection dispatches the like alone, and a reply
\* or like selection leaves last_tweet_time as it was.
C33_OneCallPerIteration ==
    [][/\ Cardinality(CallsOf(log', "generate-text")) <= 1
       /\ Cardinality(UNION {CallsOf(log', nm) :
                               nm \in {"post-tweet", "reply-to-tweet", "like-tweet"}}) <= 1
       /\ ActStep =>
            /\ SubSeq(log', 1, Len(log)) = log
            /\ NewCalls({"read-timeline"}) = {}
            /\ action_name = "post-tweet" =>
                 NewCalls({"reply-to-tweet", "like-tweet"}) = {}
            /\ action_name = "reply-to-tweet" =>
                 /\ NewCalls({"post-tweet", "like-tweet"}) = {}
                 /\ last_tweet_time' = last_tweet_time
            /\ action_name = "like-tweet" =>
                 /\ NewCalls({"generate-text", "post-tweet", "reply-to-tweet"}) = {}
                 /\ last_tweet_time' = last_tweet_time]_vars

\* C33 witness: a like selection, made after an earlier post, dispatched the
\* like and nothing else; last_tweet_time is still the time of that post.
C33_Witness ==
    /\ pc = "sleep"
    /\ action_name = "like-tweet"
    /\ Len(posted) = 1
    /\ last_tweet_time = posted[1]
    /\ Len(log) = 1
    /\ log[1].action_name = "like-tweet"
    /\ log[1].result.invoked

-----------------------------------------------------------------------------
(* The system prompts loop() hands to the LLM: any persona, any sequence    *)
(* of posts, replies and self-replies.                                      *)

NextL == PromptLLM

SpecL == InitP /\ [][NextL]_vars

\* C34: the system prompt handed to the LLM for a reply to an own tweet is
\* the persona prompt followed by the continuity instruction, and for any
\* other reply and for a post it is the persona prompt itself; the cached
\* persona prompt stays the string first constructed, so a reply or post
\* that comes after a self-reply gets that string.
C34_SelfReplyPromptLeavesCache ==
    passed # <<>> =>
        /\ _system_prompt.set
        /\ \A i \in 1..Len(passed) :
             passed[i].text =
                IF passed[i].kind = "self-reply"
                THEN _system_prompt.text
                       \o << <<>>,
                             <<"You are replying to your own previous tweet. Stay in character while building on your earlier thought.">> >>
                ELSE _system_prompt.text
        /\ _system_prompt.text =
             Join([i \in 1..Len(bio) |-> Str(bio[i])]
                  \o Section(TraitsHeader, traits)
                  \o Section(ExamplesHeader, examples))

\* C34 witness: a self-reply, then a reply to somebody else, with a persona
\* of one bio line and one trait: the second call got the persona as it was.
C34_Witness ==
    /\ Len(passed) = 2
    /\ passed[1].kind = "self-reply"
    /\ passed[2].kind = "reply"
    /\ Len(bio) = 1
    /\ Len(traits) = 1
    /\ examples = <<>>
    /\ passed[2].text = <<<<bio[1]>>, <<>>, <<"Your key traits are:">>, <<"- ", traits[1]>>>>
    /\ Len(passed[1].text) = Len(passed[2].text) + 2

-----------------------------------------------------------------------------

\* C35: read-timeline dispatched with an empty positional list on a
\* registered and configured twitter connection passes the arity check; the
\* dispatcher hands the connection an empty keyword map, and the connection
\* calls read_timeline with count = timeline_read_count.  The dispatcher
\* never puts the name of an optional parameter into the keyword map.
C35_ReadTimelineDefaultCount ==
    Called =>
        /\ (/\ d_call.connection_name = "twitter"
            /\ "twitter" \in connections
            /\ d_call.env.configured
            /\ d_call.action_name = "read-timeline"
            /\ d_call.params = <<>>) =>
              /\ d_result.invoked
              /\ d_result.reason # "ParameterCountMismatch"
              /\ DOMAIN d_result.kwargs = {}
              /\ DOMAIN d_result.method_kwargs = {"count"}
              /\ d_result.method_kwargs["count"] = PyInt(MaxTimeline)
        /\ (/\ d_result.invoked
            /\ d_call.connection_name = "twitter"
            /\ "count" \in DOMAIN d_result.kwargs) =>
              d_call.action_name = "get-latest-tweets"

\* C35 witness: the read went through on a working network: one request
\* made with the configured count, the response returned.
C35_Witness ==
    /\ Called
    /\ d_call.connection_name = "twitter"
    /\ d_call.action_name = "read-timeline"
    /\ d_call.params = <<>>
    /\ d_result.invoked
    /\ d_result.kwargs = EmptyKwargs
    /\ d_result.method_kwargs = ("count" :> PyInt(MaxTimeline))
    /\ d_result.requests = 1
    /\ d_result.ret = PyDict

-----------------------------------------------------------------------------

\* task_weights ws is aligned with tasks ts: one weight per task, the one
\* the task declares, or 1 when it declares none.
Aligned(ts, ws) ==
    /\ Len(ws) = Len(ts)
    /\ \A i \in 1..Len(ts) :
         ws[i] = IF ts[i].weight.k = "absent" THEN 1 ELSE ts[i].weight.n

\* C36: task_weights has one entry per task, equal to the weight the task
\* declares or to 1 when it declares none; no step of the loop changes
\* tasks or task_weights.
C36_TaskWeightsAligned ==
    [][/\ Aligned(tasks, self_task_weights)
       /\ tasks' = tasks
       /\ self_task_weights' = self_task_weights]_vars

\* C36 witness: four tasks, the first without a weight, after an iteration
\* that ran to its sleep: the weights are still 1, 1, 2, 1.
C36_Witness ==
    /\ pc = "top"
    /\ sleeps = 1
    /\ Len(tasks) = 4
    /\ tasks[1].weight = PyAbsent
    /\ self_task_weights = <<1, 1, 2, 1>>

-----------------------------------------------------------------------------

\* The action names loop() has a branch for.
HandledNames == {"post-tweet", "reply-to-tweet", "like-tweet"}

\* C37: an iteration whose selected task has a name loop() has no branch
\* for dispatches nothing, changes neither the buffer nor last_tweet_time,
\* raises nothing and goes on to the normal sleep.
C37_UnknownTaskNoOp ==
    [][(ActStep /\ action_name \notin HandledNames) =>
          /\ log' = log
          /\ timeline_tweets' = timeline_tweets
          /\ last_tweet_time' = last_tweet_time
          /\ posted' = posted
          /\ acted' = acted
          /\ exc' = exc
          /\ ended' = "normal"
          /\ pc' = "sleep"]_vars

\* C37 witness: the task named "post" was selected with tweets waiting in
\* the buffer; the iteration slept and the loop is at the top again, the
\* buffer still whole and nothing dispatched but the read of the timeline.
C37_Witness ==
    /\ pc = "top"
    /\ sleeps = 1
    /\ action_name = "post"
    /\ ended = "normal"
    /\ exc = ""
    /\ HasTweets(timeline_tweets)
    /\ timeline_tweets.items = fetched
    /\ Len(log) = 1
    /\ log[1].action_name = "read-timeline"
    /\ last_tweet_time = 0


-----------------------------------------------------------------------------
\* The names under which a profile's blocks are registered: the blocks that
\* have a name and whose connection object was constructed.
ConstructedNames(config) ==
    {config[i]["name"].tag : i \in
        {j \in 1..Len(config) :
            /\ "name" \in DOMAIN config[j]
            /\ connection_class_call(class_name_to_type(config[j]["name"]),
                                     config[j]).status = "built"}}

\* C38: registration never raises: whatever blocks a complete profile lists
\* (unknown type, failing validation, no name), no exception of
\* _register_connection leaves the constructor, and the agent that is built
\* holds exactly the connections that were constructed.
C38_RegistrationNeverRaises ==
    (Constructed /\ missing_fields(profile) = <<>>) =>
        /\ agent.exc # "UnboundLocalError"
        /\ agent.status = "built" => agent.connections = ConstructedNames(profile.config)

====
